---- MODULE Spec2Model ----
(***************************************************************************)
(* Model of services/user-service/app.py: a Flask identity service with an *)
(* in-memory user table (USERS), a next-id counter (NEXT_ID), a SHA-256    *)
(* credential hasher and an itsdangerous signed-token codec.               *)
(*                                                                         *)
(* Requests are served by concurrent threads (Flask's server is threaded). *)
(* Each action is a maximal run of a handler that touches the shared       *)
(* globals USERS / NEXT_ID at most once; thread-local computation is       *)
(* merged into the step that follows it.                                   *)
(***************************************************************************)
EXTENDS Integers, Sequences, FiniteSets, TLC

(***************************************************************************)
(* Bounds of the model.                                                    *)
(***************************************************************************)
NumThreads == 2
MaxRequests == 3
MaxLen == 2

Threads == 1..NumThreads

(***************************************************************************)
(* Strings are sequences of one-character strings; JSON values are tagged. *)
(***************************************************************************)
Str(s) == [t |-> "str", s |-> s]
NonStr == [t |-> "num", s |-> <<>>]
IsStr(v) == v.t = "str"

RECURSIVE LStrip(_)
LStrip(s) == IF s # <<>> /\ Head(s) = " " THEN LStrip(Tail(s)) ELSE s

RECURSIVE RStrip(_)
RStrip(s) ==
  IF s # <<>> /\ s[Len(s)] = " " THEN RStrip(SubSeq(s, 1, Len(s) - 1)) ELSE s

\* str.strip()
Strip(s) == RStrip(LStrip(s))

Digit == <<"0", "1", "2", "3", "4", "5", "6", "7", "8", "9">>

\* str(n) for n >= 0
RECURSIVE ToStr(_)
ToStr(n) ==
  IF n < 10 THEN <<Digit[n + 1]>>
  ELSE Append(ToStr(n \div 10), Digit[(n % 10) + 1])

(***************************************************************************)
(* Request inputs.  A JSON body is either an object with the four fields   *)
(* (each a string, a non-string value, or absent) or a truthy non-object.  *)
(***************************************************************************)
Absent == [t |-> "absent", s |-> <<>>]

Obj(u, p, n, e) ==
  [obj |-> TRUE, username |-> u, password |-> p, name |-> n, email |-> e]

NonObject ==
  [obj |-> FALSE, username |-> Absent, password |-> Absent, name |-> Absent,
   email |-> Absent]

UsernameVals ==
  {Str(<<"a">>), Str(<<" ", "a">>), Str(<<"b">>), Str(<<" ">>), NonStr}

PasswordVals == {Str(<<"p">>), Str(<<" ">>), Absent, NonStr}

RegisterBodies ==
  {Obj(u, p, Str(<<"n">>), Str(<<"e">>)) : u \in UsernameVals, p \in PasswordVals}
    \cup {Obj(Str(<<"a">>), Str(<<"p">>), NonStr, Str(<<"e">>)),
          Obj(Str(<<" ">>), Str(<<"p">>), Str(<<"n">>), NonStr),
          NonObject}

LoginBodies ==
  {Obj(u, p, Absent, Absent) : u \in UsernameVals, p \in PasswordVals}
    \cup {NonObject}

\* payload.get(k, "")
Get(payload, k) == IF payload[k].t = "absent" THEN Str(<<>>) ELSE payload[k]

\* Python truthiness: "" and None are falsy, the non-string value is a
\* non-zero number
Truthy(v) == IF IsStr(v) THEN v.s # <<>> ELSE v.t = "num"

(***************************************************************************)
(* Credential hasher: SHA-256 as an injective symbolic function.           *)
(***************************************************************************)
\* pw.encode("utf-8") raises AttributeError on a non-string
HashFault(pw) == ~IsStr(pw)

hash_pw(pw) == <<"sha256", pw.s>>

(***************************************************************************)
(* Token codec: signer = URLSafeSerializer(SECRET, salt="user-auth").      *)
(* A token string is  base64(json(payload)) "." base64(HMAC(key, ...)).    *)
(* The HMAC is symbolic: a tag names the key, the salt and the exact       *)
(* encoded payload it was computed over.                                   *)
(***************************************************************************)
SECRET == "dev-secret"
SALT == "user-auth"
OtherKey == "not-the-secret"

PyNone == [t |-> "none", s |-> <<>>]

\* base64(json.dumps(obj)): the encoded payload part of a token
EncodePayload(obj) == [enc |-> "b64json", obj |-> obj]

\* bytes that are not the base64 of a JSON document
RawPayload == [enc |-> "raw", obj |-> [k \in {} |-> <<>>]]

\* the integrity tag over an encoded payload under a key
Sign(key, payload) == [key |-> key, salt |-> SALT, msg |-> payload]

NoTag == [key |-> "", salt |-> "", msg |-> RawPayload]

\* mutant of SignerDumps: the tag is computed under another key
SignerDumps_OtherKey(obj) ==
  [sep |-> TRUE, payload |-> EncodePayload(obj),
   sig |-> Sign(OtherKey, EncodePayload(obj))]

\* signer.dumps(obj)
SignerDumps(obj) ==
  [sep |-> TRUE, payload |-> EncodePayload(obj),
   sig |-> Sign(SECRET, EncodePayload(obj))]

\* a string without the "." separator
Garbage == [sep |-> FALSE, payload |-> RawPayload, sig |-> NoTag]

\* mutant of SignerLoads: the tag is not compared
SignerLoads_NoVerify(token) ==
  IF ~token.sep THEN [ok |-> FALSE, data |-> [k \in {} |-> <<>>]]
  ELSE IF token.payload.enc # "b64json"
    THEN [ok |-> FALSE, data |-> [k \in {} |-> <<>>]]
  ELSE [ok |-> TRUE, data |-> token.payload.obj]

\* signer.loads(token): [ok, data]; ok = FALSE stands for BadSignature /
\* BadPayload being raised
SignerLoads(token) ==
  IF ~token.sep THEN [ok |-> FALSE, data |-> [k \in {} |-> <<>>]]
  ELSE IF token.sig # Sign(SECRET, token.payload)
    THEN [ok |-> FALSE, data |-> [k \in {} |-> <<>>]]
  ELSE IF token.payload.enc # "b64json"
    THEN [ok |-> FALSE, data |-> [k \in {} |-> <<>>]]
  ELSE [ok |-> TRUE, data |-> token.payload.obj]

make_token(username) == SignerDumps([u |-> username])

\* returns the "u" entry as a string value, or None
parse_token(token) ==
  LET r == SignerLoads(token) IN
  IF ~r.ok THEN PyNone
  ELSE IF "u" \in DOMAIN r.data THEN Str(r.data["u"])
  ELSE PyNone

(***************************************************************************)
(* Authorization header: the text up to and including the first space      *)
(* (scheme), then the remainder: a token string, possibly padded.          *)
(***************************************************************************)
LowerChar(c) ==
  CASE c = "B" -> "b" [] c = "E" -> "e" [] c = "A" -> "a" [] c = "R" -> "r"
    [] OTHER -> c

\* mutant of Lower: the text is compared as written
Lower_Identity(s) == s

\* str.lower()
Lower(s) == [i \in 1..Len(s) |-> LowerChar(s[i])]

BearerPrefix == <<"b", "e", "a", "r", "e", "r", " ">>

\* str.startswith
StartsWith(s, prefix) ==
  Len(s) >= Len(prefix) /\ SubSeq(s, 1, Len(prefix)) = prefix

Header(scheme, pad, tok) == [scheme |-> scheme, pad |-> pad, tok |-> tok]

Schemes ==
  {<<"B", "e", "a", "r", "e", "r", " ">>,
   <<"b", "e", "a", "r", "e", "r", " ">>,
   <<"B", "a", "s", "i", "c", " ">>}

\* request.headers.get("authorization", "") without the header
NoHeader == Header(<<>>, FALSE, Garbage)

\* auth.split(" ", 1)[1].strip()
HeaderToken(auth) == auth.tok

(***************************************************************************)
(* State.                                                                  *)
(*   USERS, NEXT_ID  the module globals                                    *)
(*   pc, loc         each serving thread's position and local variables    *)
(*   nreq            number of requests accepted so far                    *)
(*   resp            the response most recently sent                       *)
(*   created         the bodies of the 201 responses, in order             *)
(*   issued          tokens returned by login, with the record each login  *)
(*                   read from USERS                                       *)
(***************************************************************************)
VARIABLES USERS, NEXT_ID, pc, loc, nreq, resp, created, issued

(***************************************************************************)
(* State of the codec exercise (specification SpecCodec): a username, the  *)
(* token string under test, how far the exercise got, what decode gave and *)
(* the Authorization header sent with the token.                           *)
(***************************************************************************)
VARIABLES cuser, ctoken, cstep, cout, cauth

svars == <<USERS, NEXT_ID, pc, loc, nreq, resp, created, issued>>

cvars == <<cuser, ctoken, cstep, cout, cauth>>

vars == <<svars, cvars>>

EmptyDict == [k \in {} |-> <<>>]

NoUser ==
  [id |-> <<>>, username |-> <<>>, name |-> <<>>, email |-> <<>>,
   password_hash |-> <<"sha256", <<>>>>]

NoLocals ==
  [username |-> <<>>, password |-> Absent, name |-> <<>>, email |-> <<>>,
   user |-> NoUser, tmp |-> 0]

\* mutant of Public: the record is returned unfiltered
Public_Unfiltered(user) == user

\* {k:v for k,v in user.items() if k != "password_hash"}
Public(user) == [k \in DOMAIN user \ {"password_hash"} |-> user[k]]

\* jsonify(body), status; op names the route that answered
Response(op, status, body) == [op |-> op, status |-> status, body |-> body]

\* an exception escaping the handler: Flask answers 500
Fault(op) == Response(op, 500, [fault |-> "Internal Server Error"])

\* mutant of Put: the table is rebuilt with the new record only
Put_ReplaceAll(users, username, user) == [k \in {username} |-> user]

\* mutant of Put: the record enters the table before its digest is set
Put_Partial(users, username, user) ==
  [k \in DOMAIN users \cup {username} |->
     IF k = username
       THEN [user EXCEPT !.password_hash = NoUser.password_hash]
     ELSE users[k]]

\* USERS[username] = user
Put(users, username, user) ==
  [k \in DOMAIN users \cup {username} |->
     IF k = username THEN user ELSE users[k]]

Init ==
  /\ USERS = EmptyDict
  /\ NEXT_ID = 1
  /\ pc = [t \in Threads |-> "idle"]
  /\ loc = [t \in Threads |-> NoLocals]
  /\ nreq = 0
  /\ resp = Response("none", 0, EmptyDict)
  /\ created = <<>>
  /\ issued = {}
  /\ cuser = <<>>
  /\ ctoken = Garbage
  /\ cstep = "off"
  /\ cout = PyNone
  /\ cauth = NoHeader

\* GET /healthz
Healthz(t) ==
  /\ pc[t] = "idle"
  /\ nreq < MaxRequests
  /\ nreq' = nreq + 1
  /\ resp' = Response("healthz", 200,
                      [status |-> "ok", service |-> "user-service"])
  /\ UNCHANGED <<USERS, NEXT_ID, pc, loc, created, issued>>
  /\ UNCHANGED cvars

(***************************************************************************)
(* POST /register                                                          *)
(***************************************************************************)
\* lines 35-39: a non-object payload has no .get; .strip() needs a string
RegisterParseFault(body) ==
  \/ ~body.obj
  \/ ~IsStr(Get(body, "username"))
  \/ ~IsStr(Get(body, "name"))
  \/ ~IsStr(Get(body, "email"))

\* lines 35-44: parse, validate, test "username in USERS"
RegisterCheck(t, body) ==
  /\ pc[t] = "idle"
  /\ nreq < MaxRequests
  /\ nreq' = nreq + 1
  /\ IF RegisterParseFault(body)
       THEN /\ resp' = Fault("register")
            /\ UNCHANGED <<pc, loc>>
     ELSE LET username == Strip(Get(body, "username").s)
              password == Get(body, "password")
          IN  IF username = <<>> \/ ~Truthy(password)
                THEN /\ resp' = Response("register", 400,
                                  [error |-> "username and password required"])
                     /\ UNCHANGED <<pc, loc>>
              ELSE IF username \in DOMAIN USERS
                THEN /\ resp' = Response("register", 409,
                                  [error |-> "username already exists"])
                     /\ UNCHANGED <<pc, loc>>
              ELSE /\ pc' = [pc EXCEPT ![t] = "reg_build"]
                   /\ loc' = [loc EXCEPT ![t] =
                        [NoLocals EXCEPT !.username = username,
                                         !.password = password,
                                         !.name = Strip(Get(body, "name").s),
                                         !.email = Strip(Get(body, "email").s)]]
                   /\ UNCHANGED resp
  /\ UNCHANGED <<USERS, NEXT_ID, created, issued>>
  /\ UNCHANGED cvars

\* lines 46-52: read NEXT_ID, hash the password, build the record
RegisterBuild(t) ==
  /\ pc[t] = "reg_build"
  /\ IF HashFault(loc[t].password)
       THEN /\ resp' = Fault("register")
            /\ pc' = [pc EXCEPT ![t] = "idle"]
            /\ loc' = [loc EXCEPT ![t] = NoLocals]
     ELSE /\ loc' = [loc EXCEPT ![t].user =
                  [id |-> ToStr(NEXT_ID),
                   username |-> loc[t].username,
                   name |-> loc[t].name,
                   email |-> loc[t].email,
                   password_hash |-> hash_pw(loc[t].password)]]
          /\ pc' = [pc EXCEPT ![t] = "reg_store"]
          /\ UNCHANGED resp
  /\ UNCHANGED <<USERS, NEXT_ID, nreq, created, issued>>
  /\ UNCHANGED cvars

\* line 53: USERS[username] = user
RegisterStore(t) ==
  /\ pc[t] = "reg_store"
  /\ USERS' = Put(USERS, loc[t].username, loc[t].user)
  /\ pc' = [pc EXCEPT ![t] = "reg_load"]
  /\ UNCHANGED <<NEXT_ID, loc, nreq, resp, created, issued>>
  /\ UNCHANGED cvars

\* line 54, NEXT_ID += 1: load the global ...
RegisterLoadId(t) ==
  /\ pc[t] = "reg_load"
  /\ loc' = [loc EXCEPT ![t].tmp = NEXT_ID]
  /\ pc' = [pc EXCEPT ![t] = "reg_incr"]
  /\ UNCHANGED <<USERS, NEXT_ID, nreq, resp, created, issued>>
  /\ UNCHANGED cvars

\* ... add one and store it back; lines 55-56: answer 201 with the public fields
RegisterIncr(t) ==
  /\ pc[t] = "reg_incr"
  /\ NEXT_ID' = loc[t].tmp + 1
  /\ resp' = Response("register", 201, Public(loc[t].user))
  /\ created' = Append(created, Public(loc[t].user))
  /\ pc' = [pc EXCEPT ![t] = "idle"]
  /\ loc' = [loc EXCEPT ![t] = NoLocals]
  /\ UNCHANGED <<USERS, nreq, issued>>
  /\ UNCHANGED cvars

(***************************************************************************)
(* POST /login: one read of USERS, everything else is local                *)
(***************************************************************************)
LoginParseFault(body) == ~body.obj \/ ~IsStr(Get(body, "username"))

\* USERS.get(username)
Lookup(users, username) ==
  IF username \in DOMAIN users THEN users[username] ELSE NoUser

\* lines 60-67 run against one value of USERS: the response login sends
LoginOutcome(body, users) ==
  IF LoginParseFault(body) THEN Fault("login")
  ELSE LET username == Strip(Get(body, "username").s)
           password == Get(body, "password")
           user == Lookup(users, username)
       IN  IF username \notin DOMAIN users
             THEN Response("login", 401, [error |-> "invalid credentials"])
           ELSE IF HashFault(password) THEN Fault("login")
           ELSE IF user.password_hash # hash_pw(password)
             THEN Response("login", 401, [error |-> "invalid credentials"])
           ELSE Response("login", 200, [token |-> make_token(username)])

Login(t, body) ==
  /\ pc[t] = "idle"
  /\ nreq < MaxRequests
  /\ nreq' = nreq + 1
  /\ resp' = LoginOutcome(body, USERS)
  /\ issued' =
       IF resp'.status = 200
         THEN issued \cup
                {[token |-> resp'.body.token,
                  user |-> USERS[Strip(Get(body, "username").s)]]}
       ELSE issued
  /\ UNCHANGED <<USERS, NEXT_ID, pc, loc, created>>
  /\ UNCHANGED cvars

(***************************************************************************)
(* GET /profile                                                            *)
(***************************************************************************)
\* Token strings a client can present: the tokens login has returned, those
\* with the payload or the tag replaced, tokens tagged under another key,
\* and a string that is no token at all.
ClientPayloads ==
  {EncodePayload([u |-> <<"a">>]), EncodePayload([u |-> <<"b">>]), RawPayload}

ClientTokens ==
  LET known == {i.token : i \in issued} IN
  known
    \cup {[k EXCEPT !.payload = p] : k \in known, p \in ClientPayloads}
    \cup {[k EXCEPT !.sig = NoTag] : k \in known}
    \cup {[sep |-> TRUE, payload |-> p, sig |-> Sign(OtherKey, p)] :
            p \in ClientPayloads}
    \cup {Garbage}

Headers ==
  {Header(s, FALSE, tok) : s \in Schemes, tok \in ClientTokens}
    \cup {Header(BearerPrefix, TRUE, tok.token) : tok \in issued}
    \cup {Header(<<>>, FALSE, Garbage)}

\* mutant of ProfileOutcome: a string that is no token gets its own message
ProfileOutcome_Leaky(auth, users) ==
  IF ~StartsWith(Lower(auth.scheme), BearerPrefix)
    THEN Response("profile", 401, [error |-> "missing bearer token"])
  ELSE IF ~HeaderToken(auth).sep
    THEN Response("profile", 401, [error |-> "malformed token"])
  ELSE LET username == parse_token(HeaderToken(auth)) IN
       IF ~Truthy(username) \/ username.s \notin DOMAIN users
         THEN Response("profile", 401, [error |-> "invalid token"])
       ELSE Response("profile", 200, Public(users[username.s]))

\* lines 71-80 run against one value of USERS: the response profile sends
ProfileOutcome(auth, users) ==
  IF ~StartsWith(Lower(auth.scheme), BearerPrefix)
    THEN Response("profile", 401, [error |-> "missing bearer token"])
  ELSE LET username == parse_token(HeaderToken(auth)) IN
       IF ~Truthy(username) \/ username.s \notin DOMAIN users
         THEN Response("profile", 401, [error |-> "invalid token"])
       ELSE Response("profile", 200, Public(users[username.s]))

\* lines 71-77: scheme test, decode, test "username not in USERS"
ProfileCheck(t, auth) ==
  /\ pc[t] = "idle"
  /\ nreq < MaxRequests
  /\ nreq' = nreq + 1
  /\ IF ProfileOutcome(auth, USERS).status # 200
       THEN /\ resp' = ProfileOutcome(auth, USERS)
            /\ UNCHANGED <<pc, loc>>
     ELSE /\ pc' = [pc EXCEPT ![t] = "prof_read"]
          /\ loc' = [loc EXCEPT ![t] =
               [NoLocals EXCEPT !.username = parse_token(HeaderToken(auth)).s]]
          /\ UNCHANGED resp
  /\ UNCHANGED <<USERS, NEXT_ID, created, issued>>
  /\ UNCHANGED cvars

\* lines 78-80: user = USERS[username]; answer with the public fields
ProfileRead(t) ==
  /\ pc[t] = "prof_read"
  /\ resp' = Response("profile", 200,
                      Public(USERS[loc[t].username]))
  /\ pc' = [pc EXCEPT ![t] = "idle"]
  /\ loc' = [loc EXCEPT ![t] = NoLocals]
  /\ UNCHANGED <<USERS, NEXT_ID, nreq, created, issued>>
  /\ UNCHANGED cvars

Next ==
  \E t \in Threads :
    \/ Healthz(t)
    \/ \E body \in RegisterBodies : RegisterCheck(t, body)
    \/ RegisterBuild(t)
    \/ RegisterStore(t)
    \/ RegisterLoadId(t)
    \/ RegisterIncr(t)
    \/ \E body \in LoginBodies : Login(t, body)
    \/ \E auth \in Headers : ProfileCheck(t, auth)
    \/ ProfileRead(t)

Spec == Init /\ [][Next]_vars

(***************************************************************************)
(* Claims checked under Spec.                                              *)
(***************************************************************************)
BearerHeader(tok) == Header(<<"B", "e", "a", "r", "e", "r", " ">>, FALSE, tok)

\* C1: registration uniqueness.  Of the register requests that carry one
\* username at most one is answered 201, whatever the interleaving: no two
\* 201 responses name the same username.
C1_RegistrationUniqueness ==
  \A i, j \in DOMAIN created :
    i # j => created[i].username # created[j].username

\* C2: id uniqueness.  No two records of the store carry the same id, and no
\* two 201 responses for different usernames carry the same id.
C2_IdUniqueness ==
  /\ \A u, v \in DOMAIN USERS : u # v => USERS[u].id # USERS[v].id
  /\ \A i, j \in DOMAIN created :
       created[i].username # created[j].username
         => created[i].id # created[j].id

SameIdentity(r1, r2) ==
  /\ r1.id = r2.id
  /\ r1.username = r2.username
  /\ r1.password_hash = r2.password_hash

\* C3: append-only, immutable identities.  Once a record for username u is
\* in the store, every later state still holds a record for u with the same
\* id, username and credential digest: no step removes or overwrites one.
C3_AppendOnlyImmutable ==
  [][\A u \in DOMAIN USERS :
       u \in DOMAIN USERS' /\ SameIdentity(USERS[u], USERS'[u])]_vars

\* C4: enumeration resistance.  A login that does not succeed is answered
\* exactly as the same request is answered when the username is absent from
\* the store, so no login input tells "absent" from "present, wrong password".
C4_EnumerationResistance ==
  [][\A t \in Threads, body \in LoginBodies :
       (Login(t, body) /\ resp'.status # 200)
         => resp' = LoginOutcome(body, EmptyDict)]_vars

\* the trimmed username is in the store and the hash of the supplied
\* password equals the stored digest
CredentialsMatch(body, users) ==
  /\ body.obj
  /\ IsStr(Get(body, "username"))
  /\ Strip(Get(body, "username").s) \in DOMAIN users
  /\ IsStr(Get(body, "password"))
  /\ users[Strip(Get(body, "username").s)].password_hash
       = <<"sha256", Get(body, "password").s>>

\* C5: login correctness.  A login returns a token, whose subject is the
\* trimmed username, if and only if that username is in the store and the
\* hash of the supplied password equals the stored digest; every other login
\* is answered 401 "invalid credentials".
C5_LoginCorrectness ==
  [][\A t \in Threads, body \in LoginBodies :
       Login(t, body) =>
         IF CredentialsMatch(body, USERS)
           THEN /\ resp'.status = 200
                /\ resp'.body.token.payload.obj
                     = [u |-> Strip(Get(body, "username").s)]
         ELSE resp' = Response("login", 401, [error |-> "invalid credentials"])
    ]_vars

\* C6: token binding.  In every state, resolving a token that login returned
\* yields the record (same id and username) that the login read.
C6_TokenBinding ==
  \A i \in issued :
    LET r == ProfileOutcome(BearerHeader(i.token), USERS) IN
    r.status = 200 =>
      /\ r.body.id = i.user.id
      /\ r.body.username = i.user.username

\* C7: indefinite token validity.  In every state after a login returned a
\* token, profile with "Bearer " + token answers 200 with the identity whose
\* username is the token's subject, and every 200 profile response names a
\* stored username.
C7_TokenStaysValid ==
  /\ \A i \in issued :
       LET r == ProfileOutcome(BearerHeader(i.token), USERS) IN
       /\ r.status = 200
       /\ r.body.username = i.token.payload.obj["u"]
  /\ (resp.op = "profile" /\ resp.status = 200)
       => resp.body.username \in DOMAIN USERS

\* C7 witness: a profile request carrying an issued token was answered 200
C7_Witness ==
  /\ resp.op = "profile"
  /\ resp.status = 200
  /\ \E i \in issued : resp.body.username = i.token.payload.obj["u"]

EmptyAfterTrim(v) == IsStr(v) /\ Strip(v.s) = <<>>

\* every field of the JSON object is a string or is missing
StringFields(body) ==
  /\ body.obj
  /\ \A k \in {"username", "password", "name", "email"} : IsStr(Get(body, k))

\* C10: registration input validation.  A register request (a JSON object
\* with string fields) whose username or password is empty after trimming
\* whitespace is answered 400, creates no record and consumes no id; in
\* particular a password of whitespace only is rejected.
C10_RegisterValidation ==
  [][\A t \in Threads, body \in RegisterBodies :
       ( /\ RegisterCheck(t, body)
         /\ StringFields(body)
         /\ \/ EmptyAfterTrim(Get(body, "username"))
            \/ EmptyAfterTrim(Get(body, "password")) )
       => /\ resp' = Response("register", 400,
                              [error |-> "username and password required"])
          /\ pc'[t] = "idle"
          /\ USERS' = USERS
          /\ NEXT_ID' = NEXT_ID]_vars

\* C11: no unhandled fault.  Every register, login and profile request, for
\* every input, ends with one of the typed outcomes (success, 400, 409, 401)
\* and never with an exception escaping the handler (500).
C11_NoUnhandledFault ==
  /\ resp.status \in {0, 200, 201, 400, 401, 409}
  /\ "fault" \notin DOMAIN resp.body

Registering(t) ==
  pc[t] \in {"reg_build", "reg_store", "reg_load", "reg_incr"}

PublicKeys == {"id", "username", "name", "email"}

\* the digests held by the store and by the records being built
Digests ==
  {USERS[u].password_hash : u \in DOMAIN USERS}
    \cup {loc[t].user.password_hash : t \in Threads}

\* C14: digest confidentiality.  No response carries a password_hash field
\* or the digest of a record as the value of a field; a token's payload
\* carries the username only.
C14_DigestConfidential ==
  /\ "password_hash" \notin DOMAIN resp.body
  /\ \A k \in DOMAIN resp.body \cap PublicKeys : resp.body[k] \notin Digests
  /\ "token" \in DOMAIN resp.body =>
       /\ DOMAIN resp.body.token.payload.obj = {"u"}
       /\ resp.body.token.payload.obj["u"] \notin Digests
  /\ \A i \in DOMAIN created :
       /\ "password_hash" \notin DOMAIN created[i]
       /\ \A k \in DOMAIN created[i] : created[i][k] \notin Digests

\* C14 witness: a registration was answered 201 with the public fields of a
\* record whose digest is in the store
C14_Witness ==
  /\ resp.op = "register"
  /\ resp.status = 201
  /\ DOMAIN resp.body = PublicKeys
  /\ resp.body.username \in DOMAIN USERS
  /\ USERS[resp.body.username].password_hash = hash_pw(Str(<<"p">>))

\* all five fields of the record stored under username u are set
Complete(u, r) ==
  /\ DOMAIN r = PublicKeys \cup {"password_hash"}
  /\ r.id # <<>>
  /\ r.username = u
  /\ u # <<>>
  /\ r.password_hash # NoUser.password_hash

\* C17: consistent snapshot.  Whatever login or profile reads from USERS, in
\* any state and so in any interleaving with register, is either no record
\* for the username or a complete record; the records logins have read and
\* the bodies profile has sent are complete.
C17_ConsistentSnapshot ==
  /\ \A u \in DOMAIN USERS : Complete(u, USERS[u])
  /\ \A i \in issued : Complete(i.user.username, i.user)
  /\ (resp.op = "profile" /\ resp.status = 200) =>
       /\ DOMAIN resp.body = PublicKeys
       /\ resp.body.id # <<>>
       /\ resp.body.username # <<>>

\* C17 witness: a login read the record of a username while the register
\* request that stored it had not yet finished
C17_Witness ==
  \E t \in Threads :
    /\ pc[t] \in {"reg_load", "reg_incr"}
    /\ \E i \in issued : i.user.username = loc[t].username

\* C15: sequential ids.  Whenever no register request is in progress, the
\* next-id counter equals the number of stored records plus one and the ids
\* of the stored records are exactly 1..n.
C15_SequentialIds ==
  (\A t \in Threads : ~Registering(t)) =>
    /\ NEXT_ID = Cardinality(DOMAIN USERS) + 1
    /\ {USERS[u].id : u \in DOMAIN USERS}
         = {ToStr(i) : i \in 1..Cardinality(DOMAIN USERS)}

\* C16: mutual exclusion of registration.  In no state are two register
\* requests both between having passed the `username in USERS` check and
\* having completed NEXT_ID += 1.
C16_RegisterMutex ==
  \A t1, t2 \in Threads : (Registering(t1) /\ Registering(t2)) => t1 = t2

(***************************************************************************)
(* SpecCodec: the token codec and the resolver as functions.  Init draws a *)
(* registrable username and a store left by sequential registrations; the  *)
(* actions issue a token, alter it, decode it and resolve it.              *)
(***************************************************************************)
CodecChars == {"a", "b", " "}

CodecStrings == UNION {[1..n -> CodecChars] : n \in 0..MaxLen}

\* usernames register can store: non-empty and already trimmed
CodecNames == {s \in CodecStrings : s # <<>> /\ Strip(s) = s}

\* the record register stores for the n-th registration
StoredUser(username, n) ==
  [id |-> ToStr(n), username |-> username, name |-> <<"n">>,
   email |-> <<"e">>, password_hash |-> hash_pw(Str(<<"p">>))]

\* USERS after registering the usernames of seq, one request after another
RECURSIVE StoreOf(_)
StoreOf(seq) ==
  IF seq = <<>> THEN EmptyDict
  ELSE Put(StoreOf(SubSeq(seq, 1, Len(seq) - 1)), seq[Len(seq)],
           StoredUser(seq[Len(seq)], Len(seq)))

CodecRegistrations(u) ==
  {<<>>, <<u>>, <<<<"b">>>>} \cup
    {<<v, u>> : v \in {<<"a">>, <<"b">>} \ {u}}

\* the token strings that differ from tok in the payload, in the tag, or in
\* both with the tag computed under another key, and a string with no "."
Altered(tok) ==
  ( {[tok EXCEPT !.payload = p] :
       p \in {EncodePayload([u |-> n]) : n \in CodecNames}
               \cup {EncodePayload([v |-> cuser]), RawPayload}}
    \cup {[tok EXCEPT !.sig = g] :
            g \in {Sign(SECRET, EncodePayload([u |-> n])) : n \in CodecNames}
                    \cup {Sign(OtherKey, tok.payload), NoTag}}
    \cup {[sep |-> TRUE, payload |-> EncodePayload([u |-> n]),
           sig |-> Sign(OtherKey, EncodePayload([u |-> n]))] : n \in CodecNames}
    \cup {Garbage} ) \ {tok}

InitCodec ==
  /\ cuser \in CodecNames
  /\ ctoken = Garbage
  /\ cstep = "input"
  /\ cout = PyNone
  /\ cauth = NoHeader
  /\ \E seq \in CodecRegistrations(cuser) :
       /\ USERS = StoreOf(seq)
       /\ NEXT_ID = Len(seq) + 1
       /\ created = [i \in 1..Len(seq) |-> Public(StoredUser(seq[i], i))]
  /\ pc = [t \in Threads |-> "idle"]
  /\ loc = [t \in Threads |-> NoLocals]
  /\ nreq = 0
  /\ resp = Response("none", 0, EmptyDict)
  /\ issued = {}

\* token = make_token(username)
CodecIssue ==
  /\ cstep = "input"
  /\ ctoken' = make_token(cuser)
  /\ cstep' = "issued"
  /\ UNCHANGED <<cuser, cout, cauth, svars>>

\* the holder of the token changes it
CodecAlter(tok) ==
  /\ cstep = "issued"
  /\ ctoken' = tok
  /\ cstep' = "altered"
  /\ UNCHANGED <<cuser, cout, cauth, svars>>

\* username = parse_token(token)
CodecDecode ==
  /\ cstep \in {"issued", "altered"}
  /\ cout' = parse_token(ctoken)
  /\ cstep' = IF cstep = "issued" THEN "decoded" ELSE "decoded_altered"
  /\ UNCHANGED <<cuser, ctoken, cauth, svars>>

\* profile with Authorization: Bearer <token>
CodecResolve ==
  /\ cstep \in {"decoded", "decoded_altered"}
  /\ resp' = ProfileOutcome(BearerHeader(ctoken), USERS)
  /\ cstep' = IF cstep = "decoded" THEN "resolved" ELSE "resolved_altered"
  /\ UNCHANGED <<cuser, ctoken, cout, cauth>>
  /\ UNCHANGED <<USERS, NEXT_ID, pc, loc, nreq, created, issued>>

\* the Authorization headers that carry the token: "Bearer " in three
\* casings, another scheme, the scheme without the space that ends it, the
\* token padded with whitespace, and no header at all
CodecSchemes ==
  Schemes \cup {<<"B", "E", "A", "R", "E", "R", " ">>,
                <<"B", "e", "a", "r", "e", "r">>}

CodecHeaders(tok) ==
  {Header(s, pad, tok) : s \in CodecSchemes, pad \in BOOLEAN} \cup {NoHeader}

\* profile with the header auth
CodecRequest(auth) ==
  /\ cstep \in {"decoded", "decoded_altered"}
  /\ cauth' = auth
  /\ resp' = ProfileOutcome(auth, USERS)
  /\ cstep' = IF cstep = "decoded" THEN "answered" ELSE "answered_altered"
  /\ UNCHANGED <<cuser, ctoken, cout>>
  /\ UNCHANGED <<USERS, NEXT_ID, pc, loc, nreq, created, issued>>

NextCodec ==
  \/ CodecIssue
  \/ \E tok \in Altered(ctoken) : CodecAlter(tok)
  \/ CodecDecode
  \/ CodecResolve
  \/ \E auth \in CodecHeaders(ctoken) : CodecRequest(auth)

SpecCodec == InitCodec /\ [][NextCodec]_vars

C9_TamperDetection ==
  /\ cstep \in {"decoded_altered", "resolved_altered"} => cout = PyNone
  /\ cstep = "resolved_altered"
       => resp = Response("profile", 401, [error |-> "invalid token"])
  /\ (cstep \in {"resolved", "resolved_altered"} /\ resp.status = 200)
       => ctoken.sig = Sign(SECRET, ctoken.payload)

\* C9 witness: a well-formed token naming a stored username, its tag not the
\* one the secret gives, was decoded and refused
C9_Witness ==
  /\ cstep = "resolved_altered"
  /\ ctoken.sep
  /\ ctoken.payload.enc = "b64json"
  /\ "u" \in DOMAIN ctoken.payload.obj
  /\ ctoken.payload.obj["u"] \in DOMAIN USERS
  /\ cout = PyNone
  /\ resp.status = 401

Answered == cstep \in {"answered", "answered_altered"}

UpperChar(c) ==
  CASE c = "b" -> "B" [] c = "e" -> "E" [] c = "a" -> "A" [] c = "r" -> "R"
    [] OTHER -> c

\* the text is "bearer " in some casing
BearerScheme(scheme) ==
  /\ Len(scheme) = Len(BearerPrefix)
  /\ \A i \in 1..Len(scheme) :
       scheme[i] \in {BearerPrefix[i], UpperChar(BearerPrefix[i])}

\* C12 as stated: every profile request that does not resolve to an identity
\* is answered exactly as a request without Authorization header is: one
\* status and one error message, whatever the cause.
C12_UniformProfileFailure ==
  (Answered /\ resp.status # 200) => resp = ProfileOutcome(NoHeader, USERS)

\* C12 as amended: every profile request that does not resolve to an identity
\* is answered 401; the message is "missing bearer token" for every request
\* without the Bearer scheme and "invalid token" for every request with it,
\* whether the token is malformed, altered, tagged under another key or
\* names a username that is not in the store.
C12_ProfileFailureMessages ==
  (Answered /\ resp.status # 200) =>
    /\ resp.op = "profile"
    /\ resp.status = 401
    /\ resp.body =
         IF BearerScheme(cauth.scheme) THEN [error |-> "invalid token"]
         ELSE [error |-> "missing bearer token"]

\* C12 witness: a token whose tag verifies but whose username is not in the
\* store was refused with the message a malformed token gets
C12_Witness ==
  /\ cstep = "answered"
  /\ BearerScheme(cauth.scheme)
  /\ cuser \notin DOMAIN USERS
  /\ resp = ProfileOutcome(BearerHeader(Garbage), USERS)

\* C13: resolver classification.  A header that does not start with
\* "Bearer " in some casing is answered MissingToken; with the prefix, the
\* trimmed remainder is decoded, and a decode failure or a decoded username
\* that is not in the store is answered InvalidToken; only otherwise the
\* public fields of the decoded username's record are returned.
C13_ResolverClassification ==
  Answered =>
    IF ~BearerScheme(cauth.scheme)
      THEN resp = Response("profile", 401, [error |-> "missing bearer token"])
    ELSE IF cout = PyNone \/ cout.s \notin DOMAIN USERS
      THEN resp = Response("profile", 401, [error |-> "invalid token"])
    ELSE /\ resp.status = 200
         /\ resp.body.username = cout.s
         /\ resp.body.id = USERS[cout.s].id

\* C13 witness: "BEARER " and a padded, issued token of a stored username
\* were answered with that username's record
C13_Witness ==
  /\ cstep = "answered"
  /\ cauth.scheme = <<"B", "E", "A", "R", "E", "R", " ">>
  /\ cauth.pad
  /\ resp.status = 200
  /\ resp.body.username = cuser

====
